---- MODULE Spec2Model ----
(***************************************************************************)
(* RisiBank web API: the integration registry, the embed controller and    *)
(* the message router of src/src/RisiBank.ts, as a state machine.          *)
(*                                                                         *)
(* JavaScript values are tagged records, so that `||`, `typeof`, `===` and *)
(* Array.includes are computed as the engine computes them.  The document  *)
(* is modelled by the caller-owned elements, the set of those still        *)
(* attached to it, and the two controller-owned containers.                *)
(***************************************************************************)
EXTENDS Integers, Sequences, FiniteSets, TLC

VARIABLES
    integrations,         \* this._integrations: id -> options
    overlayContainer,     \* this._overlayContainer: Null or the element
    modalContainer,       \* this._modalContainer: Null or the element
    elements,             \* caller-owned elements: name -> [display, children]
    attached,             \* the caller-owned elements that are in the document
    currentIntegrationId, \* this._currentIntegrationId
    selectedUsername,     \* this._selectedUsername
    storage,              \* localStorage: availability and the saved item
    everRegistered,       \* history: ids under which an iframe integration was registered
    everFailed,           \* history: a user callback has thrown or stayed pending
    everCreated,          \* history: how many overlay and modal containers were created
    everDesactivated,     \* history: ids of the iframe integrations desactivate was run for
    lastCall              \* the last entry point run, what it threw, logged and called

vars == <<integrations, overlayContainer, modalContainer, elements, attached,
          currentIntegrationId, selectedUsername, storage, everRegistered, everFailed,
          everCreated, everDesactivated, lastCall>>

\* The controller's own state (everything but the trace of the last call).
controller == <<integrations, overlayContainer, modalContainer, elements,
                currentIntegrationId, selectedUsername, storage>>

-----------------------------------------------------------------------------
(* JavaScript values *)

Undef == [t |-> "undefined"]
Null == [t |-> "null"]
Str(s) == [t |-> "string", v |-> s]
Num(n) == [t |-> "number", v |-> n]
Bool(b) == [t |-> "boolean", v |-> b]
Fn(f) == [t |-> "function", v |-> f]
El(e) == [t |-> "element", v |-> e]
Pos(px, py) == [t |-> "object", x |-> px, y |-> py]

\* ToBoolean
Truthy(v) ==
    CASE v.t = "undefined" -> FALSE
      [] v.t = "null" -> FALSE
      [] v.t = "string" -> v.v # ""
      [] v.t = "number" -> v.v # 0
      [] v.t = "boolean" -> v.v
      [] OTHER -> TRUE

\* a || b
Or(a, b) == IF Truthy(a) THEN a ELSE b

\* [..strings..].includes(v): strict equality with one of the strings
Includes(list, v) == v.t = "string" /\ v.v \in list

\* `${v}` of a template literal
Template(v) ==
    CASE v.t = "string" -> v.v
      [] v.t = "boolean" -> (IF v.v THEN "true" ELSE "false")
      [] v.t = "number" -> ToString(v.v)
      [] v.t = "undefined" -> "undefined"
      [] OTHER -> "null"

\* JSON.stringify of one array element
Json(v) ==
    CASE v.t = "string" -> "\"" \o v.v \o "\""
      [] v.t = "boolean" -> (IF v.v THEN "true" ELSE "false")
      [] v.t = "number" -> ToString(v.v)
      [] OTHER -> "null"

\* s.match(/^prefix/)
StartsWith(s, prefix) ==
    Len(s) >= Len(prefix) /\ SubSeq(s, 1, Len(prefix)) = prefix

-----------------------------------------------------------------------------
(* Program constants *)

RISIBANK_URL == "https://risibank.fr/"

TYPES == {"iframe", "overlay", "modal"}
THEMES == {"light", "dark", "light-old", "dark-old"}
SIZES == {"sm", "md", "lg"}
TABS == {"search", "fav", "hot", "top", "new", "rand"}

NoError == "none"

-----------------------------------------------------------------------------
(* Bounds of the model *)

\* The id counter is capped: no iframe activation is tried once it reached the cap.
MaxIntegrationId == 4

-----------------------------------------------------------------------------
(* The document *)

\* Caller-owned container elements of the host page.
Elements == {"e1", "e2"}

NoChildren == <<>>

\* document.querySelector(sel) for the selectors "#<element name>"
QuerySelector(sel) ==
    IF Len(sel) > 1 /\ Head(sel) = "#" /\ SubSeq(sel, 2, Len(sel)) \in attached
    THEN El(SubSeq(sel, 2, Len(sel)))
    ELSE Null

\* typeof container === 'string' ? document.querySelector(container) : container
ResolveContainer(c) == IF c.t = "string" THEN QuerySelector(c.v) ELSE c

\* document.createElement('iframe') for the container c: an element distinct from
\* every element of the document.  An iframe element is named by the container it
\* was made for (it never leaves it) and a serial number; the serial alternates,
\* since the only other iframe that container can hold is the one being replaced.
CreateIFrameNode(c) ==
    [of |-> c.id,
     serial |-> IF c.children = NoChildren THEN 1 ELSE 3 - Head(c.children).node.serial]

-----------------------------------------------------------------------------
(* activate: normalisation *)

\* A variant of the defaulting that always takes the default tab.
DefaultedTab(o) ==
    [o EXCEPT !.type = Or(@, Str("iframe")),
              !.theme = Or(@, Str("light")),
              !.mediaSize = Or(@, Str("md")),
              !.navbarSize = Or(@, Str("md")),
              !.defaultTab = Str("top"),
              !.showNSFW = IF @.t = "boolean" THEN @ ELSE Bool(TRUE),
              !.allowUsernameSelection = IF @.t = "boolean" THEN @ ELSE Bool(TRUE),
              !.showCopyButton = IF @.t = "boolean" THEN @ ELSE Bool(FALSE)]

\* The defaulting statements of activate, in the order of the code.
Defaulted(o) ==
    [o EXCEPT !.type = Or(@, Str("iframe")),
              !.theme = Or(@, Str("light")),
              !.mediaSize = Or(@, Str("md")),
              !.navbarSize = Or(@, Str("md")),
              !.defaultTab = Or(@, Str("top")),
              !.showNSFW = IF @.t = "boolean" THEN @ ELSE Bool(TRUE),
              !.allowUsernameSelection = IF @.t = "boolean" THEN @ ELSE Bool(TRUE),
              !.showCopyButton = IF @.t = "boolean" THEN @ ELSE Bool(FALSE)]

\* A variant of the validation that accepts any onSelectMedia.
ValidationErrorOfEnums(o) ==
    IF ~Includes(TYPES, o.type) THEN "Invalid type"
    ELSE IF ~Includes(THEMES, o.theme) THEN "Unsupported theme"
    ELSE IF ~Includes(SIZES, o.mediaSize) THEN "Unsupported media size"
    ELSE IF ~Includes(SIZES, o.navbarSize) THEN "Unsupported navbar size"
    ELSE IF ~Includes(TABS, o.defaultTab) THEN "Unsupported default tab"
    ELSE NoError

\* The first check of activate that throws on the defaulted options o, or NoError.
ValidationError(o) ==
    IF ~Includes(TYPES, o.type) THEN "Invalid type"
    ELSE IF ~Includes(THEMES, o.theme) THEN "Unsupported theme"
    ELSE IF ~Includes(SIZES, o.mediaSize) THEN "Unsupported media size"
    ELSE IF ~Includes(SIZES, o.navbarSize) THEN "Unsupported navbar size"
    ELSE IF ~Includes(TABS, o.defaultTab) THEN "Unsupported default tab"
    ELSE IF o.onSelectMedia.t # "function" THEN "A callback must be specified"
    ELSE NoError

-----------------------------------------------------------------------------
(* The embed URL, the content hash and the population of a container *)

\* A variant that gives the close button to every type and the username to
\* every integration.
GetEmbedUrlForAll(options, integrationId) ==
    RISIBANK_URL \o "/embed?id=" \o ToString(integrationId)
        \o "&theme=" \o Template(options.theme)
        \o "&allowUsernameSelection=" \o Template(options.allowUsernameSelection)
        \o "&showCopyButton=" \o Template(options.showCopyButton)
        \o "&mediaSize=" \o Template(options.mediaSize)
        \o "&navbarSize=" \o Template(options.navbarSize)
        \o "&defaultTab=" \o Template(options.defaultTab)
        \o "&showNSFW=" \o Template(options.showNSFW)
        \o "&showCloseButton=true"
        \o (IF selectedUsername.t = "string"
            THEN "&username=" \o Template(selectedUsername) ELSE "")

GetEmbedUrl(options, integrationId) ==
    RISIBANK_URL \o "/embed?id=" \o ToString(integrationId)
        \o "&theme=" \o Template(options.theme)
        \o "&allowUsernameSelection=" \o Template(options.allowUsernameSelection)
        \o "&showCopyButton=" \o Template(options.showCopyButton)
        \o "&mediaSize=" \o Template(options.mediaSize)
        \o "&navbarSize=" \o Template(options.navbarSize)
        \o "&defaultTab=" \o Template(options.defaultTab)
        \o "&showNSFW=" \o Template(options.showNSFW)
        \o (IF Includes({"overlay", "modal"}, options.type)
            THEN "&showCloseButton=true" ELSE "")
        \o (IF Truthy(options.allowUsernameSelection) /\ selectedUsername.t = "string"
            THEN "&username=" \o Template(selectedUsername) ELSE "")

HashOptions(options) ==
    "[" \o Json(options.theme)
        \o "," \o Json(options.allowUsernameSelection)
        \o "," \o Json(options.showCopyButton)
        \o "," \o Json(options.mediaSize)
        \o "," \o Json(options.navbarSize)
        \o "," \o Json(options.defaultTab)
        \o "," \o Json(options.type) \o "]"

\* A variant of the population that never looks at what the container holds.
PopulateAlways(options, c, integrationId) ==
    [c EXCEPT !.children =
        <<[node |-> CreateIFrameNode(c),
           src |-> GetEmbedUrl(options, integrationId),
           hash |-> HashOptions(options)]>>]

\* The container c after _populateContainerWithIFrame(options, c, integrationId).
PopulateContainerWithIFrame(options, c, integrationId) ==
    LET containerHash == HashOptions(options)
    IN  IF c.children # NoChildren /\ Head(c.children).hash = containerHash
        THEN [c EXCEPT !.display = "block"]
        ELSE [c EXCEPT !.children =
                  <<[node |-> CreateIFrameNode(c),
                     src |-> GetEmbedUrl(options, integrationId),
                     hash |-> containerHash]>>]

-----------------------------------------------------------------------------
(* The trace of the last entry point *)

\* op: the entry point; arg: its argument (the options as passed, the id, the
\* event, the username or the element); id: the integration id activate used;
\* error: what the call threw, or NoError; calls: the user callbacks it invoked,
\* in order; log: whether it logged an origin mismatch; replaced: the options
\* activate found registered under the id and replaced; result: the value a
\* helper of UI returned.
Returned(op, arg, id, calls) ==
    [op |-> op, arg |-> arg, id |-> id, error |-> NoError, calls |-> calls,
     log |-> FALSE, replaced |-> Undef, result |-> Undef]

Threw(op, arg, error, calls) ==
    [op |-> op, arg |-> arg, id |-> Undef, error |-> error, calls |-> calls,
     log |-> FALSE, replaced |-> Undef,
     result |-> Undef]

\* this._integrations[id], for a number id
Entry(id) == IF id \in DOMAIN integrations THEN integrations[id] ELSE Undef

-----------------------------------------------------------------------------
(* activate *)

\* A caller-owned element, or the overlay container as activate creates it.
NewElement(id) == [t |-> "element", id |-> id, display |-> "", children |-> NoChildren]

\* A variant of the allocation that takes the lowest iframe id not registered.
LowestFreeId ==
    CHOOSE n \in 3..(currentIntegrationId + 1) :
        n \notin DOMAIN integrations /\ \A m \in 3..(n - 1) : m \in DOMAIN integrations

\* A variant of the allocation that counts downward, into the reserved ids.
PreviousIntegrationId == currentIntegrationId - 1

\* ++this._currentIntegrationId
NextIntegrationId == currentIntegrationId + 1

\* if (options.type === 'iframe') { ... }
ActivateIFrame(raw, options) ==
    LET id == NextIntegrationId
        container == ResolveContainer(options.container)
    IN  /\ currentIntegrationId < MaxIntegrationId
        /\ currentIntegrationId' = id
        /\ UNCHANGED <<overlayContainer, modalContainer, everCreated>>
        /\ IF options.container.t = "undefined"
           THEN /\ lastCall' = Threw("activate", raw, "A container must be specified", <<>>)
                /\ UNCHANGED <<integrations, elements, everRegistered>>
           ELSE IF ~Truthy(container)
           THEN /\ lastCall' = Threw("activate", raw, "Invalid container specified", <<>>)
                /\ UNCHANGED <<integrations, elements, everRegistered>>
           ELSE /\ elements' = [elements EXCEPT ![container.v] =
                                    PopulateContainerWithIFrame(options, @, id)]
                /\ integrations' = (id :> options) @@ integrations
                /\ everRegistered' = everRegistered \cup {id}
                /\ lastCall' = Returned("activate", raw, Num(id), <<>>)

\* A variant that keeps the stored options when the iframe is kept.
ActivateOverlayKeepingOptions(raw, options) ==
    LET created == IF overlayContainer.t = "null" THEN NewElement("risibank-overlay")
                   ELSE overlayContainer
        shown == [created EXCEPT !.display = "block"]
        kept == /\ 0 \in DOMAIN integrations
                /\ shown.children # NoChildren
                /\ shown.children[1].hash = HashOptions(options)
    IN  /\ overlayContainer' = PopulateContainerWithIFrame(options, shown, 0)
        /\ integrations' = IF kept THEN integrations ELSE (0 :> options) @@ integrations
        /\ lastCall' = [Returned("activate", raw, Num(0), <<>>) EXCEPT
                                !.replaced = Entry(0)]
        /\ everCreated' = IF overlayContainer.t = "null"
                          THEN [everCreated EXCEPT !.overlay = @ + 1] ELSE everCreated
        /\ UNCHANGED <<modalContainer, elements, currentIntegrationId, everRegistered>>

\* if (options.type === 'overlay') { ... }
ActivateOverlay(raw, options) ==
    LET created == IF overlayContainer.t = "null" THEN NewElement("risibank-overlay")
                   ELSE overlayContainer
        shown == [created EXCEPT !.display = "block"]
    IN  /\ overlayContainer' = PopulateContainerWithIFrame(options, shown, 0)
        /\ integrations' = (0 :> options) @@ integrations
        /\ lastCall' = [Returned("activate", raw, Num(0), <<>>) EXCEPT
                                !.replaced = Entry(0)]
        /\ everCreated' = IF overlayContainer.t = "null"
                          THEN [everCreated EXCEPT !.overlay = @ + 1] ELSE everCreated
        /\ UNCHANGED <<modalContainer, elements, currentIntegrationId, everRegistered>>

NewModalElement ==
    [t |-> "element", id |-> "risibank-modal", display |-> "", pointerEvents |-> "",
     left |-> "", top |-> "", children |-> NoChildren]

\* if (options.type === 'modal') { ... }
ActivateModal(raw, options) ==
    IF options.openPosition.t = "undefined"
    THEN /\ lastCall' = Threw("activate", raw, "A position must be specified", <<>>)
         /\ UNCHANGED <<integrations, overlayContainer, modalContainer, elements,
                        currentIntegrationId, everRegistered, everCreated>>
    ELSE LET created == IF modalContainer.t = "null" THEN NewModalElement
                        ELSE modalContainer
             shown == [created EXCEPT
                          !.display = "block",
                          !.pointerEvents = "all",
                          !.left = Template(Num(options.openPosition.x)) \o "px",
                          !.top = Template(Num(options.openPosition.y)) \o "px"]
         IN  /\ modalContainer' = PopulateContainerWithIFrame(options, shown, 1)
             /\ integrations' = (1 :> options) @@ integrations
             /\ lastCall' = [Returned("activate", raw, Num(1), <<>>) EXCEPT
                                !.replaced = Entry(1)]
             /\ everCreated' = IF modalContainer.t = "null"
                               THEN [everCreated EXCEPT !.modal = @ + 1] ELSE everCreated
             /\ UNCHANGED <<overlayContainer, elements, currentIntegrationId,
                            everRegistered>>

\* RisiBank.activate(raw)
Activate(raw) ==
    LET options == Defaulted(raw)
        error == ValidationError(options)
    IN  /\ UNCHANGED <<attached, selectedUsername, storage, everFailed, everDesactivated>>
        /\ IF error # NoError
           THEN /\ lastCall' = Threw("activate", raw, error, <<>>)
                /\ UNCHANGED <<integrations, overlayContainer, modalContainer, elements,
                               currentIntegrationId, everRegistered, everCreated>>
           ELSE IF options.type.v = "iframe" THEN ActivateIFrame(raw, options)
           ELSE IF options.type.v = "overlay" THEN ActivateOverlay(raw, options)
           ELSE ActivateModal(raw, options)

-----------------------------------------------------------------------------
(* desactivate *)

\* What desactivate reads and writes.
World ==
    [integrations |-> integrations, overlayContainer |-> overlayContainer,
     modalContainer |-> modalContainer, elements |-> elements]

\* Whether this._integrations[id] is an options object (and not undefined).
Registered(registry, id) == id.t = "number" /\ id.v \in DOMAIN registry

Without(f, k) == [x \in DOMAIN f \ {k} |-> f[x]]

DesactivateIFrame(w, options, id) ==
    LET container == ResolveContainer(options.container)
    IN  IF ~Truthy(container) THEN w
        ELSE [w EXCEPT !.elements[container.v].children = NoChildren,
                       !.integrations = Without(@, id)]

\* A variant that empties the overlay container as the iframe branch does.
DesactivateOverlayAndClear(w) ==
    IF w.overlayContainer.t = "null" THEN w
    ELSE [w EXCEPT !.overlayContainer.display = "none",
                   !.overlayContainer.children = NoChildren]

\* A variant that removes the overlay container instead of hiding it.
DesactivateOverlayAndRemove(w) == [w EXCEPT !.overlayContainer = Null]

\* document.querySelector('#risibank-overlay') finds the container once created.
DesactivateOverlay(w) ==
    IF w.overlayContainer.t = "null" THEN w
    ELSE [w EXCEPT !.overlayContainer.display = "none"]

\* A variant that hides the modal and leaves its pointer events as they are.
DesactivateModalDisplay(w) ==
    IF w.modalContainer.t = "null" THEN w
    ELSE [w EXCEPT !.modalContainer.display = "none"]

DesactivateModal(w) ==
    IF w.modalContainer.t = "null" THEN w
    ELSE [w EXCEPT !.modalContainer.display = "none",
                   !.modalContainer.pointerEvents = "none"]

\* A variant that treats an id without an entry as naming the overlay.
DesactivateOneOrOverlay(w, id) ==
    IF ~Registered(w.integrations, id) THEN DesactivateOverlay(w)
    ELSE LET options == w.integrations[id.v]
         IN  IF options.type.v = "iframe" THEN DesactivateIFrame(w, options, id.v)
             ELSE IF options.type.v = "overlay" THEN DesactivateOverlay(w)
             ELSE DesactivateModal(w)

\* desactivate(id) for a given id
DesactivateOne(w, id) ==
    IF ~Registered(w.integrations, id) THEN w
    ELSE LET options == w.integrations[id.v]
         IN  IF options.type.v = "iframe" THEN DesactivateIFrame(w, options, id.v)
             ELSE IF options.type.v = "overlay" THEN DesactivateOverlay(w)
             ELSE IF options.type.v = "modal" THEN DesactivateModal(w)
             ELSE w

\* The keys of the registry in the order for..in enumerates them (ascending).
RECURSIVE KeysInOrder(_)
KeysInOrder(S) ==
    IF S = {} THEN <<>>
    ELSE LET least == CHOOSE k \in S : \A j \in S : k <= j
         IN  <<least>> \o KeysInOrder(S \ {least})

\* for (const id in this._integrations) this.desactivate(parseInt(id, 10)):
\* a key deleted before the loop reaches it is not visited.
RECURSIVE DesactivateEach(_, _)
DesactivateEach(w, keys) ==
    IF keys = <<>> THEN w
    ELSE IF Head(keys) \notin DOMAIN w.integrations THEN DesactivateEach(w, Tail(keys))
    ELSE DesactivateEach(DesactivateOne(w, Num(Head(keys))), Tail(keys))

\* RisiBank.desactivate(id), id a JavaScript value
DesactivateIn(w, id) ==
    IF id.t = "undefined"
    THEN DesactivateEach(w, KeysInOrder(DOMAIN w.integrations))
    ELSE DesactivateOne(w, id)

\* The iframe integrations desactivate(id) runs _desactivateIFrame for: the one
\* under the id, or every one when no id is given.
DesactivatedIFrames(id) ==
    {n \in DOMAIN integrations :
         integrations[n].type = Str("iframe") /\ (id.t = "undefined" \/ id = Num(n))}

SetWorld(w) ==
    /\ integrations' = w.integrations
    /\ overlayContainer' = w.overlayContainer
    /\ modalContainer' = w.modalContainer
    /\ elements' = w.elements

Desactivate(id) ==
    /\ SetWorld(DesactivateIn(World, id))
    /\ lastCall' = Returned("desactivate", id, Undef, <<>>)
    /\ everDesactivated' = everDesactivated \cup DesactivatedIFrames(id)
    /\ UNCHANGED <<attached, currentIntegrationId, selectedUsername, storage,
                   everRegistered, everFailed, everCreated>>

-----------------------------------------------------------------------------
(* The selected username and its persistence *)

NoStorage == [available |-> FALSE, item |-> Null]

UsernameChars == "abcdefghijklmnopqrstuvwxyzABCDEFGHIJKLMNOPQRSTUVWXYZ0123456789][_-"

\* A variant of the pattern without the end anchor: /^[a-zA-Z0-9\][_-]+/i
MatchesUsernamePrefix(s) ==
    /\ Len(s) >= 1
    /\ \E j \in 1..Len(UsernameChars) : SubSeq(s, 1, 1) = SubSeq(UsernameChars, j, j)

\* s.match(/^[a-zA-Z0-9\][_-]+$/i)
MatchesUsernamePattern(s) ==
    /\ Len(s) >= 1
    /\ \A i \in 1..Len(s) :
           \E j \in 1..Len(UsernameChars) : SubSeq(s, i, i) = SubSeq(UsernameChars, j, j)

\* The constructor's load of the saved username.
LoadedUsername(store) ==
    IF store.available /\ store.item.t = "string" /\ MatchesUsernamePattern(store.item.v)
    THEN store.item
    ELSE Null

\* set selectedUsername(username): the new <<_selectedUsername, localStorage>>
UsernameAfterSet(username) ==
    IF username.t = "null" \/ username.t # "string"
    THEN <<Null, IF storage.available THEN [storage EXCEPT !.item = Null] ELSE storage>>
    ELSE <<username,
           IF storage.available THEN [storage EXCEPT !.item = username] ELSE storage>>

SetSelectedUsername(username) ==
    /\ selectedUsername' = UsernameAfterSet(username)[1]
    /\ storage' = UsernameAfterSet(username)[2]
    /\ lastCall' = Returned("setUsername", username, Undef, <<>>)
    /\ UNCHANGED <<integrations, overlayContainer, modalContainer, elements, attached,
                   currentIntegrationId, everRegistered, everFailed, everCreated,
                   everDesactivated>>

-----------------------------------------------------------------------------
(* User callbacks *)

\* What a call of the user function f does: "addImageLinkNoField" is a callback of
\* Actions.addImageLink whose form element is not found, "pasteImage" the
\* asynchronous callback of Actions.pasteImage; any other function returns.
CallbackOutcome(f) ==
    IF f = "addImageLinkNoField" THEN "throws"
    ELSE IF f = "pasteImage" THEN "pending"
    ELSE "returns"

\* The record of one callback invocation: callback({id, type, media}).
Call(prop, f, id, type, media) ==
    [prop |-> prop, fn |-> f.v, id |-> id, type |-> type, media |-> media]

-----------------------------------------------------------------------------
(* The message router *)

\* RisiBank.activate(options) run from inside a callback for the options registered
\* under id 0 or 1, which are valid: the container exists, since the entry does.
ActivateAgainIn(w, id) ==
    LET options == Defaulted(w.integrations[id])
    IN  IF id = 0
        THEN LET shown == [w.overlayContainer EXCEPT !.display = "block"]
             IN  [w EXCEPT !.overlayContainer = PopulateContainerWithIFrame(options, shown, 0),
                           !.integrations = (0 :> options) @@ @]
        ELSE LET shown == [w.modalContainer EXCEPT
                              !.display = "block",
                              !.pointerEvents = "all",
                              !.left = Template(Num(options.openPosition.x)) \o "px",
                              !.top = Template(Num(options.openPosition.y)) \o "px"]
             IN  [w EXCEPT !.modalContainer = PopulateContainerWithIFrame(options, shown, 1),
                           !.integrations = (1 :> options) @@ @]

\* What the body of the user function f does to the controller while it is being
\* dispatched for the overlay or the modal id: "activateAgain" is a callback that
\* calls RisiBank.activate with the options it was registered with; the callbacks
\* of Actions do not call the API.
CallbackEffect(f, w, id) ==
    IF f = "activateAgain" /\ id \in {0, 1} THEN ActivateAgainIn(w, id) ELSE w

MediaSelected(event) ==
    LET id == event.data.id
        called == Registered(integrations, id) /\ Truthy(integrations[id.v].onSelectMedia)
        calls == IF called
                 THEN <<Call("onSelectMedia", integrations[id.v].onSelectMedia, id,
                             event.data.type.v, event.data.media)>>
                 ELSE <<>>
        after == IF called
                 THEN CallbackEffect(integrations[id.v].onSelectMedia.v, World, id.v)
                 ELSE World
    IN  IF called /\ CallbackOutcome(integrations[id.v].onSelectMedia.v) = "throws"
        THEN /\ lastCall' = Threw("message", event, "Element not found", calls)
             /\ UNCHANGED controller
        ELSE /\ IF /\ Registered(after.integrations, id)
                   /\ Includes({"overlay", "modal"}, after.integrations[id.v].type)
                THEN SetWorld(DesactivateIn(after, id))
                ELSE SetWorld(after)
             /\ lastCall' = Returned("message", event, Undef, calls)
             /\ UNCHANGED <<currentIntegrationId, selectedUsername, storage>>

\* A variant in which a failed callback stops the dispatch of media-copy messages.
MediaCopyUntilFailure(event) ==
    LET id == event.data.id
        called == /\ ~everFailed
                  /\ Registered(integrations, id)
                  /\ Truthy(integrations[id.v].onCopyMedia)
        calls == IF called
                 THEN <<Call("onCopyMedia", integrations[id.v].onCopyMedia, id,
                             event.data.type.v, event.data.media)>>
                 ELSE <<>>
    IN  /\ UNCHANGED controller
        /\ lastCall' = Returned("message", event, Undef, calls)

MediaCopy(event) ==
    LET id == event.data.id
        called == Registered(integrations, id) /\ Truthy(integrations[id.v].onCopyMedia)
        calls == IF called
                 THEN <<Call("onCopyMedia", integrations[id.v].onCopyMedia, id,
                             event.data.type.v, event.data.media)>>
                 ELSE <<>>
    IN  /\ UNCHANGED controller
        /\ IF called /\ CallbackOutcome(integrations[id.v].onCopyMedia.v) = "throws"
           THEN lastCall' = Threw("message", event, "Element not found", calls)
           ELSE lastCall' = Returned("message", event, Undef, calls)

\* A variant of the origin test that accepts every origin on the trusted host.
TrustedByPrefix(event) == StartsWith(event.origin, "https://risibank.fr")

\* event.origin === Constants.RISIBANK_URL
Trusted(event) == event.origin = RISIBANK_URL

\* RisiBank._onIFrameMessage(event)
OnIFrameMessage(event) ==
    LET data == event.data
        Ignored == /\ lastCall' = Returned("message", event, Undef, <<>>)
                   /\ UNCHANGED controller
    IN  /\ UNCHANGED <<attached, everRegistered, everCreated>>
        /\ IF ~Truthy(data) THEN Ignored
           ELSE IF ~Truthy(data.type) THEN Ignored
           ELSE IF data.type.t # "string"
           THEN /\ lastCall' = Threw("message", event, "TypeError: match is not a function",
                                     <<>>)
                /\ UNCHANGED controller
           ELSE IF ~StartsWith(data.type.v, "risibank") THEN Ignored
           ELSE IF ~Trusted(event)
           THEN /\ lastCall' = [Returned("message", event, Undef, <<>>) EXCEPT !.log = TRUE]
                /\ UNCHANGED controller
           ELSE IF data.type.v = "risibank-closed"
           THEN /\ SetWorld(DesactivateIn(World, data.id))
                /\ lastCall' = Returned("message", event, Undef, <<>>)
                /\ UNCHANGED <<currentIntegrationId, selectedUsername, storage>>
           ELSE IF data.type.v = "risibank-username-selected"
           THEN /\ selectedUsername' = UsernameAfterSet(data.username)[1]
                /\ storage' = UsernameAfterSet(data.username)[2]
                /\ lastCall' = Returned("message", event, Undef, <<>>)
                /\ UNCHANGED <<integrations, overlayContainer, modalContainer, elements,
                               currentIntegrationId>>
           ELSE IF data.type.v = "risibank-username-cleared"
           THEN /\ selectedUsername' = UsernameAfterSet(Null)[1]
                /\ storage' = UsernameAfterSet(Null)[2]
                /\ lastCall' = Returned("message", event, Undef, <<>>)
                /\ UNCHANGED <<integrations, overlayContainer, modalContainer, elements,
                               currentIntegrationId>>
           ELSE IF data.type.v = "risibank-media-copy" THEN MediaCopy(event)
           ELSE IF data.type.v = "risibank-media-selected" THEN MediaSelected(event)
           ELSE /\ lastCall' = Returned("message", event, Undef, <<>>)
                /\ UNCHANGED controller
        /\ everFailed' = (everFailed \/ \E i \in 1..Len(lastCall'.calls) :
                                            CallbackOutcome(lastCall'.calls[i].fn) # "returns")
        /\ everDesactivated' =
               IF Truthy(data) /\ data.type = Str("risibank-closed") /\ Trusted(event)
               THEN everDesactivated \cup DesactivatedIFrames(data.id)
               ELSE everDesactivated

-----------------------------------------------------------------------------
(* The host page *)

\* The host page removes one of its elements from the document; the element and
\* what it holds stay reachable through references to it.
RemoveElement(e) ==
    /\ e \in attached
    /\ attached' = attached \ {e}
    /\ lastCall' = Returned("removeElement", El(e), Undef, <<>>)
    /\ UNCHANGED <<integrations, overlayContainer, modalContainer, elements,
                   currentIntegrationId, selectedUsername, storage, everRegistered,
                   everFailed, everCreated, everDesactivated>>

\* The page is reloaded and a new RisiBank is constructed: a new document, a new
\* instance, the same localStorage.
Constructor ==
    /\ integrations' = <<>>
    /\ overlayContainer' = Null
    /\ modalContainer' = Null
    /\ elements' = [e \in Elements |-> NewElement(e)]
    /\ attached' = Elements
    /\ currentIntegrationId' = 2
    /\ selectedUsername' = LoadedUsername(storage)
    /\ everRegistered' = {}
    /\ everFailed' = FALSE
    /\ everCreated' = [overlay |-> 0, modal |-> 0]
    /\ everDesactivated' = {}
    /\ lastCall' = Returned("constructor", Undef, Undef, <<>>)
    /\ UNCHANGED storage

-----------------------------------------------------------------------------
(* UI: the position of the modal *)

\* const size = { width: 600, height: 300 } of getPreferredModalOpenPosition
ModalSize == [width |-> 600, height |-> 300]

\* const margin = 25 of getPreferredModalOpenPosition
ModalMargin == 25

\* A variant that only keeps the box from crossing the right and bottom edges.
AdjustPositionForFarBounds(position, size, margin, window) ==
    Pos(IF position.x + size.width + margin > window.innerWidth
        THEN window.innerWidth - size.width - margin ELSE position.x,
        IF position.y + size.height + margin > window.innerHeight
        THEN window.innerHeight - size.height - margin ELSE position.y)

\* UI.adjustPositionForWindowBounds({x, y}, {width, height}, margin), in a window
\* of the given inner width and height.
AdjustPositionForWindowBounds(position, size, margin, window) ==
    LET x1 == IF position.x + size.width + margin > window.innerWidth
              THEN window.innerWidth - size.width - margin ELSE position.x
        x2 == IF x1 < margin THEN margin ELSE x1
        y1 == IF position.y + size.height + margin > window.innerHeight
              THEN window.innerHeight - size.height - margin ELSE position.y
        y2 == IF y1 < margin THEN margin ELSE y1
    IN  Pos(x2, y2)

\* UI.getPreferredModalOpenPosition(): active is Null or the bounding rectangle
\* of document.activeElement.  The windows of the model have even sizes, whose
\* halves are whole numbers.
GetPreferredModalOpenPosition(active, window) ==
    IF active.t = "null"
    THEN AdjustPositionForWindowBounds(
             Pos((window.innerWidth \div 2) - (ModalSize.width \div 2),
                 (window.innerHeight \div 2) - (ModalSize.height \div 2)),
             ModalSize, ModalMargin, window)
    ELSE IF active.bottom + ModalMargin + ModalSize.height > window.innerHeight
    THEN AdjustPositionForWindowBounds(
             Pos(active.left, active.top - ModalSize.height - ModalMargin),
             ModalSize, ModalMargin, window)
    ELSE AdjustPositionForWindowBounds(
             Pos(active.left, active.bottom + ModalMargin),
             ModalSize, ModalMargin, window)

\* A call of one of the two helpers: they read the window and change nothing.
CallAdjustPositionForWindowBounds(position, size, margin, window) ==
    /\ lastCall' = [Returned("adjustPositionForWindowBounds",
                             [position |-> position, size |-> size, margin |-> margin,
                              window |-> window], Undef, <<>>)
                       EXCEPT !.result =
                           AdjustPositionForWindowBounds(position, size, margin, window)]
    /\ UNCHANGED <<integrations, overlayContainer, modalContainer, elements, attached,
                   currentIntegrationId, selectedUsername, storage, everRegistered,
                   everFailed, everCreated, everDesactivated>>

CallGetPreferredModalOpenPosition(active, window) ==
    /\ lastCall' = [Returned("getPreferredModalOpenPosition",
                             [active |-> active, window |-> window], Undef, <<>>)
                       EXCEPT !.result = GetPreferredModalOpenPosition(active, window)]
    /\ UNCHANGED <<integrations, overlayContainer, modalContainer, elements, attached,
                   currentIntegrationId, selectedUsername, storage, everRegistered,
                   everFailed, everCreated, everDesactivated>>

-----------------------------------------------------------------------------
(* Inputs *)

\* An options object with no field set but a callable onSelectMedia.
BaseOptions ==
    [type |-> Undef, container |-> Undef, openPosition |-> Undef, theme |-> Undef,
     mediaSize |-> Undef, navbarSize |-> Undef, defaultTab |-> Undef,
     showNSFW |-> Undef, allowUsernameSelection |-> Undef, showCopyButton |-> Undef,
     onCopyMedia |-> Undef, onSelectMedia |-> Fn("onSelect1")]

OverlayOptions == [BaseOptions EXCEPT !.type = Str("overlay")]
ModalOptions == [BaseOptions EXCEPT !.type = Str("modal"), !.openPosition = Pos(10, 10)]
FrameOptions == [BaseOptions EXCEPT !.type = Str("iframe"), !.container = El("e1")]

\* Options with a value outside the enum of type, theme, mediaSize, navbarSize or
\* defaultTab; the empty string is such a value, and a falsy one.
InvalidEnumInputs ==
    { [FrameOptions EXCEPT !.type = Str("popup")],
      [OverlayOptions EXCEPT !.theme = Str("pink")],
      [OverlayOptions EXCEPT !.theme = Str("")],
      [OverlayOptions EXCEPT !.mediaSize = Str("xl")],
      [ModalOptions EXCEPT !.navbarSize = Str("xl")],
      [FrameOptions EXCEPT !.defaultTab = Str("best")] }

\* Options that lack a field their type requires, or a callable onSelectMedia.
IncompleteInputs ==
    { [FrameOptions EXCEPT !.container = Undef],
      [FrameOptions EXCEPT !.container = Str("#missing")],
      [ModalOptions EXCEPT !.openPosition = Undef],
      [OverlayOptions EXCEPT !.onSelectMedia = Undef],
      [FrameOptions EXCEPT !.onSelectMedia = Str("not a function")] }

\* The ids a caller or a message may name: the reserved ones, 2 (never assigned),
\* the iframe ids, and none.
IdInputs == {Num(i) : i \in 0..MaxIntegrationId} \cup {Undef}

Origins == {RISIBANK_URL, "https://risibank.fr", "https://evil.example"}

Media == [t |-> "object", id |-> 7]

Message(type, id, username) ==
    [t |-> "object", type |-> type, id |-> id, username |-> username, media |-> Media]

\* The ids a message names: the reserved ones, 2 (never assigned), the first
\* iframe id, and none.
MessageIds == {Num(0), Num(1), Num(2), Num(3), Undef}

\* Payloads of inbound messages: none, payloads the type filter discards or
\* chokes on, an unrecognized kind, and the five kinds.
DataInputs ==
    {Null}
    \cup {Message(type, Num(0), Undef) :
              type \in {Undef, Num(42), Str("resize"), Str("risibank-unknown")}}
    \cup {Message(Str(kind), id, Undef) :
              kind \in {"risibank-closed", "risibank-media-copy",
                        "risibank-media-selected"},
              id \in MessageIds}
    \cup {Message(Str("risibank-username-selected"), Num(0), username) :
              username \in {Str("bob"), Undef}}
    \cup {Message(Str("risibank-username-cleared"), Num(0), Undef)}

\* Well-formed payloads, as another origin may post them.
ForgedInputs ==
    {Message(Str(kind), Num(id), Undef) :
         kind \in {"risibank-closed", "risibank-media-selected"}, id \in {0, 3}}
    \cup {Message(Str("risibank-media-copy"), Num(3), Undef),
          Message(Str("risibank-username-selected"), Num(0), Str("eve")),
          Message(Str("risibank-username-cleared"), Num(0), Undef)}

Event(origin, data) == [origin |-> origin, data |-> data]

-----------------------------------------------------------------------------
(* The specifications *)

\* The state the constructor leaves, on a page whose elements are all attached.
InitOn(stores) ==
    /\ integrations = <<>>
    /\ overlayContainer = Null
    /\ modalContainer = Null
    /\ elements = [e \in Elements |-> NewElement(e)]
    /\ attached = Elements
    /\ currentIntegrationId = 2
    /\ storage \in stores
    /\ selectedUsername = LoadedUsername(storage)
    /\ everRegistered = {}
    /\ everFailed = FALSE
    /\ everCreated = [overlay |-> 0, modal |-> 0]
    /\ everDesactivated = {}
    /\ lastCall = Returned("constructor", Undef, Undef, <<>>)

\* Spec: the overlay and the modal under activations with valid and invalid
\* values, deactivations by id and the messages that close them, beside one
\* iframe integration.
SurfaceInputs ==
    { OverlayOptions,
      [OverlayOptions EXCEPT !.theme = Str("dark")],
      [OverlayOptions EXCEPT !.showNSFW = Bool(FALSE)],
      ModalOptions,
      [ModalOptions EXCEPT !.theme = Str("dark")],
      FrameOptions } \cup InvalidEnumInputs \cup IncompleteInputs

SurfaceEvents ==
    {Event(RISIBANK_URL, Message(Str(kind), Num(id), Undef)) :
         kind \in {"risibank-closed", "risibank-media-selected"}, id \in {0, 1}}

Init == InitOn({NoStorage})

Next ==
    \/ \E raw \in SurfaceInputs : Activate(raw)
    \/ \E id \in {Num(0), Num(1)} : Desactivate(id)
    \/ \E event \in SurfaceEvents : OnIFrameMessage(event)

Spec == Init /\ [][Next]_vars

\* SpecFrames: iframe integrations in containers given as elements and as
\* selectors, activations that lack a required field, every form of desactivate,
\* messages that name an iframe integration,
\* and a host page that removes an element.
FrameInputs ==
    { OverlayOptions,
      ModalOptions,
      FrameOptions,
      [FrameOptions EXCEPT !.type = Undef, !.theme = Str("dark")],
      [FrameOptions EXCEPT !.container = Str("#e2")] } \cup IncompleteInputs

\* Trusted messages that name the first iframe id.
FrameEvents ==
    {Event(RISIBANK_URL, Message(Str(kind), Num(3), Undef)) :
         kind \in {"risibank-closed", "risibank-media-selected", "risibank-media-copy"}}

NextFrames ==
    \/ \E raw \in FrameInputs : Activate(raw)
    \/ \E id \in IdInputs : Desactivate(id)
    \/ \E event \in FrameEvents : OnIFrameMessage(event)
    \/ RemoveElement("e2")

SpecFrames == Init /\ [][NextFrames]_vars

\* SpecRouter: every kind of inbound message from trusted and untrusted origins,
\* to integrations whose callbacks return, throw or stay pending, with a username
\* that is loaded, set and cleared.
RouterOptions == [BaseOptions EXCEPT !.allowUsernameSelection = Bool(FALSE)]

RouterInputs ==
    { [RouterOptions EXCEPT !.type = Str("overlay")],
      [RouterOptions EXCEPT !.type = Str("overlay"),
                            !.onSelectMedia = Fn("addImageLinkNoField")],
      [RouterOptions EXCEPT !.type = Str("modal"), !.openPosition = Pos(10, 10),
                            !.onSelectMedia = Fn("pasteImage")],
      [RouterOptions EXCEPT !.type = Str("iframe"), !.container = El("e1"),
                            !.onCopyMedia = Fn("onCopy1")] }

\* Every payload from the trusted origin, and forged ones from the others.
RouterEvents ==
    {Event(RISIBANK_URL, d) : d \in DataInputs}
    \cup {Event(o, d) : o \in Origins \ {RISIBANK_URL}, d \in ForgedInputs}

InitRouter == InitOn({[available |-> TRUE, item |-> Str("bob")]})

NextRouter ==
    \/ \E raw \in RouterInputs : Activate(raw)
    \/ Desactivate(Undef)
    \/ \E event \in RouterEvents : OnIFrameMessage(event)
    \/ SetSelectedUsername(Str("bob"))

SpecRouter == InitRouter /\ [][NextRouter]_vars

\* SpecEmbed: the embed URL under every combination of valid enum values and of
\* the three booleans, with and without a selected username, for a caller that
\* activates an integration only while none is registered.
EnumInputs ==
    { [BaseOptions EXCEPT !.type = Str(type), !.container = El("e1"),
                          !.openPosition = Pos(10, 10), !.theme = Str(theme),
                          !.mediaSize = Str(mediaSize), !.navbarSize = Str(navbarSize),
                          !.defaultTab = Str(defaultTab)] :
          type \in TYPES, theme \in THEMES, mediaSize \in SIZES, navbarSize \in SIZES,
          defaultTab \in TABS }

BooleanInputs ==
    { [BaseOptions EXCEPT !.type = type, !.container = El("e1"),
                          !.openPosition = Pos(10, 10), !.showNSFW = showNSFW,
                          !.allowUsernameSelection = allowUsernameSelection,
                          !.showCopyButton = showCopyButton] :
          type \in {Undef, Str("overlay"), Str("modal")},
          showNSFW \in {Bool(TRUE), Bool(FALSE)},
          allowUsernameSelection \in {Bool(TRUE), Bool(FALSE)},
          showCopyButton \in {Bool(TRUE), Bool(FALSE)} }

InitEmbed == InitOn({NoStorage, [available |-> TRUE, item |-> Str("bob")]})

NextEmbed ==
    \/ \E raw \in EnumInputs \cup BooleanInputs : integrations = <<>> /\ Activate(raw)
    \/ Desactivate(Undef)
    \/ \E username \in {Str("bob"), Null} : SetSelectedUsername(username)

SpecEmbed == InitEmbed /\ [][NextEmbed]_vars

\* SpecStorage: the selected username and its persistence, under storage that is
\* absent, empty, or holds a well-formed or a polluted value, usernames set by the
\* setter and by trusted messages, and reloads of the page.
Usernames == {Str("bob"), Str("a_b-[1]"), Str("a b"), Str("")}

Stores ==
    {NoStorage, [available |-> TRUE, item |-> Null]}
    \cup {[available |-> TRUE, item |-> username] :
              username \in {Str("bob"), Str("a_b-[1]"), Str("-"), Str(""), Str("<b>"),
                            Str("bob!")}}

StorageEvents ==
    {Event(RISIBANK_URL, Message(Str("risibank-username-selected"), Num(0), username)) :
         username \in {Str("bob"), Str("a b"), Undef}}
    \cup {Event(RISIBANK_URL, Message(Str("risibank-username-cleared"), Num(0), Undef))}

InitStorage == InitOn(Stores)

NextStorage ==
    \/ \E username \in Usernames \cup {Null} : SetSelectedUsername(username)
    \/ \E event \in StorageEvents : OnIFrameMessage(event)
    \/ Activate(OverlayOptions)
    \/ Constructor

SpecStorage == InitStorage /\ [][NextStorage]_vars

\* SpecUI: the position helpers of UI, applied to positions inside, at the edge
\* of and outside the window, for boxes that fit in the window and boxes that do
\* not.
Coordinates == {-100, 10, 25, 300, 2000}

Positions == {Pos(x, y) : x \in Coordinates, y \in Coordinates}

BoxSizes == {ModalSize, [width |-> 200, height |-> 100]}

Margins == {0, ModalMargin}

Windows ==
    { [innerWidth |-> 1280, innerHeight |-> 720],
      [innerWidth |-> 650, innerHeight |-> 350],
      [innerWidth |-> 400, innerHeight |-> 300] }

\* The bounding rectangles of the focused element, and Null for none.
ActiveElements ==
    {Null}
    \cup {[t |-> "rect", left |-> left, top |-> top, bottom |-> top + 40] :
              left \in {10, 300}, top \in {0, 200, 600}}

NextUI ==
    \/ \E position \in Positions, size \in BoxSizes, margin \in Margins, window \in Windows :
           CallAdjustPositionForWindowBounds(position, size, margin, window)
    \/ \E active \in ActiveElements, window \in Windows :
           CallGetPreferredModalOpenPosition(active, window)

SpecUI == Init /\ [][NextUI]_vars

\* SpecReentrant: an overlay and a modal whose onSelectMedia calls activate again
\* with the options it was registered with, beside ones whose callback only
\* returns, in two themes.
ReentrantInputs ==
    { [o EXCEPT !.onSelectMedia = Fn(f), !.theme = theme] :
          o \in {OverlayOptions, ModalOptions},
          f \in {"onSelect1", "activateAgain"},
          theme \in {Undef, Str("dark")} }

NextReentrant ==
    \/ \E raw \in ReentrantInputs : Activate(raw)
    \/ \E id \in {Num(0), Num(1)} : Desactivate(id)
    \/ \E event \in SurfaceEvents : OnIFrameMessage(event)

SpecReentrant == Init /\ [][NextReentrant]_vars

-----------------------------------------------------------------------------
(* Claims about the message router (SpecRouter) *)

\* The step is a call of the entry point op.
Called(op) == lastCall'.op = op

\* C1: a message whose origin is not exactly the trusted origin invokes no
\* callback and leaves the registry, the id counter, the containers and their
\* visibility, and the selected username as they were, whatever its type and id.
C1_UntrustedOriginChangesNothing ==
    [][(Called("message") /\ lastCall'.arg.origin # RISIBANK_URL)
           => (lastCall'.calls = <<>> /\ UNCHANGED controller)]_vars

\* A media-selected message naming the registered, visible overlay came from
\* another origin while a username was selected.
C1_Witness ==
    /\ lastCall.op = "message"
    /\ lastCall.arg = Event("https://risibank.fr",
                            Message(Str("risibank-media-selected"), Num(0), Undef))
    /\ 0 \in DOMAIN integrations
    /\ overlayContainer.display = "block"
    /\ selectedUsername = Str("bob")

\* The step is the router's handling of a trusted media-selected message that
\* names a registered integration of the given type.
SelectedFor(type) ==
    /\ Called("message")
    /\ lastCall'.arg.origin = RISIBANK_URL
    /\ lastCall'.arg.data.t = "object"
    /\ lastCall'.arg.data.type = Str("risibank-media-selected")
    /\ Registered(integrations, lastCall'.arg.data.id)
    /\ integrations[lastCall'.arg.data.id.v].type.v = type

\* The step invoked the addressed integration's onSelectMedia once, with
\* {id, type, media} of the message, and nothing else.
OneSelectCall ==
    LET data == lastCall'.arg.data
    IN  lastCall'.calls =
            <<[prop |-> "onSelectMedia", fn |-> integrations[data.id.v].onSelectMedia.v,
               id |-> data.id, type |-> data.type.v, media |-> data.media]>>

\* C2: a trusted media-selected message for the registered overlay or modal
\* invokes its onSelectMedia exactly once with {id, type, media} and leaves its
\* container hidden; for a registered iframe integration it invokes the callback
\* once and leaves the registry entry and the container's iframe in place.
C2_MediaSelectedCallsOnceAndCloses ==
    [][/\ SelectedFor("overlay") => (OneSelectCall /\ overlayContainer'.display = "none")
       /\ SelectedFor("modal") => (OneSelectCall /\ modalContainer'.display = "none")
       /\ SelectedFor("iframe") => (OneSelectCall /\ integrations' = integrations
                                       /\ elements' = elements)]_vars

-----------------------------------------------------------------------------
(* Claims about the overlay and the modal (Spec) *)

\* The container of the reserved id: 0 the overlay, 1 the modal.
Surface(id) == IF id = 0 THEN overlayContainer ELSE modalContainer

\* The step is a successful activate of the overlay (id 0) or the modal (id 1)
\* while the container already holds an iframe.
Reactivated(id) ==
    /\ Called("activate")
    /\ lastCall'.id = Num(id)
    /\ Surface(id).t = "element"
    /\ Surface(id).children # NoChildren

\* C3: re-activating the overlay or the modal with options whose normalized
\* values are those of the previous activation keeps the iframe element (its
\* node, source and data-hash) and leaves the container visible, also after any
\* number of repetitions and when desactivate hid the container in between.
C3_SameOptionsKeepIFrame ==
    [][\A id \in {0, 1} :
           (Reactivated(id) /\ Defaulted(lastCall'.arg) = Entry(id))
               => /\ Surface(id)'.children = Surface(id).children
                  /\ Surface(id)'.display = "block"]_vars

\* The modal was activated again with the dark options it had and keeps the
\* second iframe made for it, beside a registered overlay that is hidden.
C3_Witness ==
    /\ lastCall.op = "activate"
    /\ lastCall.id = Num(1)
    /\ lastCall.replaced = Defaulted(lastCall.arg)
    /\ lastCall.replaced.theme = Str("dark")
    /\ modalContainer.children[1].node.serial = 2
    /\ 0 \in DOMAIN integrations /\ overlayContainer.display = "none"

\* C4: re-activating the overlay or the modal with a configuration field that
\* differs from that of the iframe in the container replaces the iframe: the
\* container then holds exactly one new iframe, whose source is the embed URL of
\* the new options and whose data-hash is their hash.
C4_ChangedOptionsReplaceIFrame ==
    [][\A id \in {0, 1} :
           (Reactivated(id)
                /\ Surface(id).children[1].src # GetEmbedUrl(Defaulted(lastCall'.arg), id))
               => /\ Len(Surface(id)'.children) = 1
                  /\ Surface(id)'.children[1].node # Surface(id).children[1].node
                  /\ Surface(id)'.children[1].src = GetEmbedUrl(Defaulted(lastCall'.arg), id)
                  /\ Surface(id)'.children[1].hash = HashOptions(Defaulted(lastCall'.arg))]_vars


\* The enum of each validated field.
Enum(field) ==
    CASE field = "type" -> TYPES
      [] field = "theme" -> THEMES
      [] field \in {"mediaSize", "navbarSize"} -> SIZES
      [] field = "defaultTab" -> TABS

\* The options carry, for one of the five fields, a value outside its enum.
HasInvalidEnumValue(raw) ==
    \E field \in {"type", "theme", "mediaSize", "navbarSize", "defaultTab"} :
        raw[field].t # "undefined" /\ ~Includes(Enum(field), raw[field])

\* C6: for every invalid value of type, theme, mediaSize, navbarSize or
\* defaultTab, activate throws and leaves the registry, the id counter and the
\* containers (none created, none shown, no iframe inserted) as they were.
C6_InvalidEnumThrowsAndChangesNothing ==
    [][(Called("activate") /\ HasInvalidEnumValue(lastCall'.arg))
           => (lastCall'.error # NoError /\ UNCHANGED controller)]_vars

\* C10: desactivate(0) and desactivate(1) change visibility only: the overlay
\* gets display none, the modal display none and no pointer events; the
\* registry, the id counter, the containers' identity and iframes and every
\* iframe integration stay as they were.
C10_SurfaceDesactivateOnlyHides ==
    [][/\ (Called("desactivate") /\ lastCall'.arg = Num(0) /\ 0 \in DOMAIN integrations)
              => /\ overlayContainer' = [overlayContainer EXCEPT !.display = "none"]
                 /\ UNCHANGED <<integrations, currentIntegrationId, modalContainer,
                                elements, selectedUsername, storage>>
       /\ (Called("desactivate") /\ lastCall'.arg = Num(1) /\ 1 \in DOMAIN integrations)
              => /\ modalContainer' = [modalContainer EXCEPT !.display = "none",
                                                             !.pointerEvents = "none"]
                 /\ UNCHANGED <<integrations, currentIntegrationId, overlayContainer,
                                elements, selectedUsername, storage>>]_vars

\* desactivate(1) hid the modal, which keeps its iframe and its entry, beside a
\* visible overlay and an iframe integration.
C10_Witness ==
    /\ lastCall.op = "desactivate" /\ lastCall.arg = Num(1)
    /\ 1 \in DOMAIN integrations
    /\ modalContainer.display = "none" /\ modalContainer.pointerEvents = "none"
    /\ modalContainer.children # NoChildren
    /\ 0 \in DOMAIN integrations /\ overlayContainer.display = "block"
    /\ 3 \in DOMAIN integrations /\ elements["e1"].children # NoChildren

-----------------------------------------------------------------------------
(* Claims about iframe integrations and desactivate (SpecFrames) *)

\* The step is a successful activate with type iframe.
ActivatedIFrame ==
    /\ Called("activate")
    /\ lastCall'.error = NoError
    /\ Defaulted(lastCall'.arg).type = Str("iframe")

\* C5: the successful iframe activations are registered under pairwise distinct
\* ids, strictly increasing in call order and all above 2, whatever was called
\* in between.
C5_IFrameIdsIncrease ==
    [][ActivatedIFrame
           => /\ lastCall'.id.t = "number"
              /\ lastCall'.id.v > 2
              /\ \A earlier \in everRegistered : lastCall'.id.v > earlier
              /\ lastCall'.id.v \in DOMAIN integrations'
              /\ integrations'[lastCall'.id.v] = Defaulted(lastCall'.arg)
              /\ everRegistered' = everRegistered \cup {lastCall'.id.v}]_vars

\* A second iframe integration was registered (under 4) after the first one
\* (under 3) had been deactivated.
C5_Witness ==
    /\ lastCall.op = "activate" /\ lastCall.id = Num(4)
    /\ everRegistered = {3, 4}
    /\ DOMAIN integrations = {0, 4}

\* C7: an activate that throws commits nothing: the registry, the id counter and
\* the cached containers are the same after the throw as before the call.
C7_ThrowCommitsNothing ==
    [][(Called("activate") /\ lastCall'.error # NoError)
           => UNCHANGED <<integrations, currentIntegrationId, overlayContainer,
                          modalContainer, elements>>]_vars

\* The element an iframe integration's container names, attached or not.
ContainerElement(options) ==
    IF options.container.t = "string"
    THEN SubSeq(options.container.v, 2, Len(options.container.v))
    ELSE options.container.v

IFrameIds == {id \in DOMAIN integrations : integrations[id].type = Str("iframe")}

\* C8: desactivate() deactivates every integration: no iframe entry remains and
\* the containers of the iframe integrations are empty, the overlay and the modal
\* are hidden if they exist; a second desactivate() right after changes nothing.
C8_DesactivateAll ==
    [][(Called("desactivate") /\ lastCall'.arg = Undef)
           => /\ \A id \in DOMAIN integrations' : integrations'[id].type # Str("iframe")
              /\ \A id \in IFrameIds :
                     elements'[ContainerElement(integrations[id])].children = NoChildren
              /\ overlayContainer.t = "element" => overlayContainer'.display = "none"
              /\ modalContainer.t = "element" => modalContainer'.display = "none"
              /\ (lastCall.op = "desactivate" /\ lastCall.arg = Undef)
                     => UNCHANGED controller]_vars

\* C9: desactivate(id) on a registered iframe integration always clears its
\* container and deletes its registry entry.
C9_IFrameDesactivateDeletes ==
    [][(Called("desactivate") /\ lastCall'.arg.t = "number"
            /\ lastCall'.arg.v \in IFrameIds)
           => /\ lastCall'.arg.v \notin DOMAIN integrations'
              /\ elements'[ContainerElement(integrations[lastCall'.arg.v])].children
                     = NoChildren]_vars

\* The step is desactivate(id) for a given id that has no registry entry.
DesactivatedUnregistered ==
    /\ Called("desactivate")
    /\ lastCall'.arg.t = "number"
    /\ lastCall'.arg.v \notin DOMAIN integrations

\* C11: desactivate(id) for an id without a registry entry (never assigned, or an
\* iframe id already deactivated) throws nothing and changes nothing; and for
\* every id, and for no id, a desactivate that directly follows the same
\* desactivate changes nothing more.
C11_DesactivateUnregisteredIsNoOp ==
    [][/\ DesactivatedUnregistered
              => (lastCall'.error = NoError /\ UNCHANGED controller)
       /\ (Called("desactivate") /\ lastCall.op = "desactivate"
               /\ lastCall'.arg = lastCall.arg)
              => (lastCall'.error = NoError /\ UNCHANGED controller)
       /\ Called("desactivate") => DesactivateIn(World', lastCall'.arg) = World']_vars

\* desactivate(4) was called when 4 had never been assigned, 3 had been
\* deactivated, and the overlay was registered and shown.
C11_Witness ==
    /\ lastCall.op = "desactivate" /\ lastCall.arg = Num(4)
    /\ 4 \notin everRegistered
    /\ 3 \in everRegistered /\ 3 \notin DOMAIN integrations
    /\ 0 \in DOMAIN integrations /\ overlayContainer.display = "block"

-----------------------------------------------------------------------------
(* Claims about the embed URL and the normalisation (SpecEmbed) *)

\* The query parameters every embed URL carries, in the documented order.
QueryParameters ==
    <<"theme", "allowUsernameSelection", "showCopyButton", "mediaSize", "navbarSize",
      "defaultTab", "showNSFW">>

\* "&name=value" for each of the names, in order, with the values of options.
RECURSIVE Query(_, _)
Query(names, options) ==
    IF names = <<>> THEN ""
    ELSE "&" \o Head(names) \o "=" \o Template(options[Head(names)])
             \o Query(Tail(names), options)

\* The embed URL the documentation gives for normalized options, an id and the
\* current username.
DocumentedUrl(options, id, username) ==
    RISIBANK_URL \o "/embed?id=" \o ToString(id) \o Query(QueryParameters, options)
        \o (IF options.type.v \in {"overlay", "modal"} THEN "&showCloseButton=true" ELSE "")
        \o (IF options.allowUsernameSelection = Bool(TRUE) /\ username.t = "string"
            THEN "&username=" \o username.v ELSE "")

\* The container a successful activate populated, after the call.
Populated ==
    IF lastCall'.id = Num(0) THEN overlayContainer'
    ELSE IF lastCall'.id = Num(1) THEN modalContainer'
    ELSE elements'[ResolveContainer(Defaulted(lastCall'.arg).container).v]

\* The same container before the call, Null if it did not exist.
PopulatedBefore ==
    IF lastCall'.id = Num(0) THEN overlayContainer
    ELSE IF lastCall'.id = Num(1) THEN modalContainer
    ELSE elements[ResolveContainer(Defaulted(lastCall'.arg).container).v]

\* The step is a successful activate that inserted an iframe.
InsertedIFrame ==
    /\ Called("activate")
    /\ lastCall'.error = NoError
    /\ \/ PopulatedBefore.t = "null"
       \/ PopulatedBefore.children # Populated.children

\* C12: the source of every iframe activate inserts is the base URL followed by
\* /embed?id=<id>, then theme, allowUsernameSelection, showCopyButton, mediaSize,
\* navbarSize, defaultTab and showNSFW in that order, then showCloseButton=true
\* exactly for the overlay and the modal, then username=<value> exactly when
\* allowUsernameSelection is true and a username is set.
C12_EmbedUrlFormat ==
    [][InsertedIFrame
           => /\ Len(Populated.children) = 1
              /\ Populated.children[1].src =
                     DocumentedUrl(Defaulted(lastCall'.arg), lastCall'.id.v,
                                   selectedUsername)]_vars

\* A modal that allows the username selection was activated while the username
\* bob was selected: its iframe's source ends with the close button and the
\* username parameters.
C12_Witness ==
    /\ lastCall.op = "activate" /\ lastCall.id = Num(1)
    /\ lastCall.arg.allowUsernameSelection = Bool(TRUE)
    /\ lastCall.arg.showNSFW = Bool(FALSE)
    /\ selectedUsername = Str("bob")
    /\ modalContainer.children[1].src =
           "https://risibank.fr//embed?id=1&theme=light&allowUsernameSelection=true"
               \o "&showCopyButton=false&mediaSize=md&navbarSize=md&defaultTab=top"
               \o "&showNSFW=false&showCloseButton=true&username=bob"

\* The positions at which sub occurs in s.
Occurrences(s, sub) ==
    {i \in 1..(Len(s) - Len(sub) + 1) : SubSeq(s, i, i + Len(sub) - 1) = sub}

\* The URL carries the query parameter name once, and with that value: followed
\* by the next parameter or by the end of the URL.
Carries(url, name, value) ==
    LET key == "&" \o name \o "="
        at == Occurrences(url, key)
    IN  /\ Cardinality(at) = 1
        /\ \A i \in at :
               LET next == i + Len(key) + Len(value)
               IN  /\ next <= Len(url) + 1
                   /\ SubSeq(url, i + Len(key), next - 1) = value
                   /\ next = Len(url) + 1 \/ SubSeq(url, next, next) = "&"

\* The options name a valid value for each of the five enum fields, the fields
\* their type requires, and a callable onSelectMedia.
ValidCombination(raw) ==
    /\ Includes(TYPES, raw.type) /\ Includes(THEMES, raw.theme)
    /\ Includes(SIZES, raw.mediaSize) /\ Includes(SIZES, raw.navbarSize)
    /\ Includes(TABS, raw.defaultTab)
    /\ raw.type.v = "iframe" => Truthy(ResolveContainer(raw.container))
    /\ raw.type.v = "modal" => raw.openPosition.t = "object"
    /\ raw.onSelectMedia.t = "function"

\* C13: for every combination of valid values of type, theme, mediaSize,
\* navbarSize and defaultTab, with the required fields and a callable
\* onSelectMedia, activate succeeds, registers the integration under the id of its
\* type with those values, and the source of the iframe in its container carries
\* exactly those values.
C13_ValidEnumsActivate ==
    [][(Called("activate") /\ ValidCombination(lastCall'.arg))
           => LET raw == lastCall'.arg
                  id == lastCall'.id
              IN  /\ lastCall'.error = NoError
                  /\ id.t = "number" /\ id.v \in DOMAIN integrations'
                  /\ raw.type.v = "overlay" => id.v = 0
                  /\ raw.type.v = "modal" => id.v = 1
                  /\ raw.type.v = "iframe" => id.v = currentIntegrationId + 1
                  /\ \A field \in {"type", "theme", "mediaSize", "navbarSize", "defaultTab"} :
                         integrations'[id.v][field] = raw[field]
                  /\ Len(Populated.children) = 1
                  /\ \A field \in {"theme", "mediaSize", "navbarSize", "defaultTab"} :
                         Carries(Populated.children[1].src, field, raw[field].v)
                  /\ Carries(Populated.children[1].src, "showCloseButton", "true")
                         <=> raw.type.v # "iframe"]_vars

\* An iframe integration was activated with the last value of every enum, after
\* an earlier one had been deactivated.
C13_Witness ==
    /\ lastCall.op = "activate" /\ lastCall.id = Num(4)
    /\ lastCall.arg.theme = Str("dark-old") /\ lastCall.arg.mediaSize = Str("lg")
    /\ lastCall.arg.navbarSize = Str("sm") /\ lastCall.arg.defaultTab = Str("rand")
    /\ elements["e1"].children[1].src =
           "https://risibank.fr//embed?id=4&theme=dark-old&allowUsernameSelection=true"
               \o "&showCopyButton=false&mediaSize=lg&navbarSize=sm&defaultTab=rand"
               \o "&showNSFW=true"

\* The documented default of each defaulted field.
DocumentedDefault(field) ==
    CASE field = "theme" -> Str("light")
      [] field = "mediaSize" -> Str("md")
      [] field = "navbarSize" -> Str("md")
      [] field = "defaultTab" -> Str("top")
      [] field = "showNSFW" -> Bool(TRUE)
      [] field = "allowUsernameSelection" -> Bool(TRUE)
      [] field = "showCopyButton" -> Bool(FALSE)

\* C14: a field of the caller's options gets its documented default only when it
\* is absent: an activate that succeeds registers the default for each absent
\* field and the caller's value for each present one, and a present type, theme,
\* mediaSize, navbarSize or defaultTab outside its enum, a falsy one included,
\* makes activate throw instead of being defaulted.
C14_DefaultsOnlyWhenAbsent ==
    [][Called("activate")
           => /\ HasInvalidEnumValue(lastCall'.arg) => lastCall'.error # NoError
              /\ lastCall'.error = NoError
                     => \A field \in {"theme", "mediaSize", "navbarSize", "defaultTab",
                                      "showNSFW", "allowUsernameSelection",
                                      "showCopyButton"} :
                            integrations'[lastCall'.id.v][field] =
                                IF lastCall'.arg[field].t = "undefined"
                                THEN DocumentedDefault(field)
                                ELSE lastCall'.arg[field]]_vars

-----------------------------------------------------------------------------
(* Claims about the callbacks of an integration (SpecRouter) *)

\* C15: a message invokes the onCopyMedia of an integration only if that
\* integration is registered with showCopyButton true.
C15_CopyCallbackOnlyWithCopyButton ==
    [][Called("message")
           => \A i \in 1..Len(lastCall'.calls) :
                  lastCall'.calls[i].prop = "onCopyMedia"
                      => integrations[lastCall'.calls[i].id.v].showCopyButton = Bool(TRUE)]_vars

-----------------------------------------------------------------------------
(* Claims about the persistence of the username (SpecStorage) *)

\* The step sets the username to a string, through the setter or through a
\* trusted username-selected message; UsernameSet is that string.
SetsUsername ==
    \/ Called("setUsername") /\ lastCall'.arg.t = "string"
    \/ /\ Called("message")
       /\ lastCall'.arg.origin = RISIBANK_URL
       /\ lastCall'.arg.data.type = Str("risibank-username-selected")
       /\ lastCall'.arg.data.username.t = "string"

UsernameSet ==
    IF lastCall'.op = "setUsername" THEN lastCall'.arg ELSE lastCall'.arg.data.username

\* The step clears the username, through the setter or through a trusted
\* username-cleared message.
ClearsUsername ==
    \/ Called("setUsername") /\ lastCall'.arg = Null
    \/ /\ Called("message")
       /\ lastCall'.arg.origin = RISIBANK_URL
       /\ lastCall'.arg.data.type = Str("risibank-username-cleared")

\* C16: where storage exists, after the username is set to any string an
\* instance constructed on the same storage observes that string, and after it
\* is cleared such an instance observes no username; a reload therefore leaves
\* the selected username as it was.
C16_UsernameRoundTrip ==
    [][storage.available
           => /\ SetsUsername => LoadedUsername(storage') = UsernameSet
              /\ ClearsUsername => LoadedUsername(storage') = Null
              /\ Called("constructor") => selectedUsername' = selectedUsername]_vars

\* The characters a stored username may be made of.
AllowedCharacters == "abcdefghijklmnopqrstuvwxyz" \o "ABCDEFGHIJKLMNOPQRSTUVWXYZ"
                         \o "0123456789" \o "_-[]"

\* A non-empty string made solely of the allowed characters.
WellFormedUsername(v) ==
    /\ v.t = "string"
    /\ v.v # ""
    /\ \A i \in 1..Len(v.v) : Occurrences(AllowedCharacters, SubSeq(v.v, i, i)) # {}

\* C17: a newly constructed instance has the stored username if storage exists
\* and holds a non-empty string made solely of letters, digits, underscores,
\* hyphens and square brackets; with any other stored value, or without storage,
\* it has no username, and the constructor does not throw.
C17_ConstructorAdoptsWellFormedOnly ==
    lastCall.op = "constructor"
        => /\ lastCall.error = NoError
           /\ selectedUsername =
                  IF storage.available /\ WellFormedUsername(storage.item)
                  THEN storage.item ELSE Null

\* The page was reloaded after a username with a space had been set: the stored
\* value is still there and the new instance has no username.
C17_Witness ==
    /\ lastCall.op = "constructor"
    /\ storage = [available |-> TRUE, item |-> Str("a b")]
    /\ selectedUsername = Null

-----------------------------------------------------------------------------
(* Further claims about the message router (SpecRouter) *)

\* The five kinds of message the router knows.
Kinds ==
    {"risibank-media-selected", "risibank-media-copy", "risibank-closed",
     "risibank-username-selected", "risibank-username-cleared"}

\* The payload is absent, has no type, has a type that does not start with the
\* reserved prefix (a string or not), or has a prefixed type that is no known kind.
Discardable(data) ==
    \/ data.t # "object"
    \/ data.type.t = "undefined"
    \/ data.type.t # "string"
    \/ ~StartsWith(data.type.v, "risibank")
    \/ data.type.v \notin Kinds

\* C18: a message whose payload is absent, lacks a type, has a type without the
\* reserved prefix (whatever its value) or has a prefixed but unknown kind is
\* discarded silently: the handler throws nothing, invokes no callback and leaves
\* the registry, the visibility and the username unchanged.
C18_MalformedMessagesDiscarded ==
    [][(Called("message") /\ Discardable(lastCall'.arg.data))
           => /\ lastCall'.error = NoError
              /\ lastCall'.calls = <<>>
              /\ UNCHANGED controller]_vars

\* The container of the integration registered under id.
ContainerOf(id) ==
    IF integrations[id].type = Str("overlay") THEN overlayContainer
    ELSE IF integrations[id].type = Str("modal") THEN modalContainer
    ELSE elements[ContainerElement(integrations[id])]

\* The same container after the step.
ContainerAfter(id) ==
    IF integrations[id].type = Str("overlay") THEN overlayContainer'
    ELSE IF integrations[id].type = Str("modal") THEN modalContainer'
    ELSE elements'[ContainerElement(integrations[id])]

\* The step is the router's handling of a trusted closed message.
ClosedMessage ==
    /\ Called("message")
    /\ lastCall'.arg.origin = RISIBANK_URL
    /\ lastCall'.arg.data.t = "object"
    /\ lastCall'.arg.data.type = Str("risibank-closed")

\* C19: a trusted closed message deactivates the integration its id field names
\* and no other: whatever the id field holds (a registered id, an unregistered
\* one, or nothing), every other integration keeps its registry entry, and its
\* container, unless it is also the container of the named integration, keeps its
\* iframe and its visibility.
C19_ClosedDeactivatesOnlyNamed ==
    [][ClosedMessage
           => \A id \in DOMAIN integrations :
                  Num(id) # lastCall'.arg.data.id
                      => /\ id \in DOMAIN integrations'
                         /\ integrations'[id] = integrations[id]
                         /\ \/ ContainerAfter(id) = ContainerOf(id)
                            \/ /\ Registered(integrations, lastCall'.arg.data.id)
                               /\ ContainerOf(lastCall'.arg.data.id.v).id
                                      = ContainerOf(id).id]_vars

\* The step is the router's handling of a trusted message of the given kind that
\* names a registered integration which declares the callback prop.
Dispatches(kind, prop) ==
    /\ Called("message")
    /\ lastCall'.arg.origin = RISIBANK_URL
    /\ lastCall'.arg.data.t = "object"
    /\ lastCall'.arg.data.type = Str(kind)
    /\ Registered(integrations, lastCall'.arg.data.id)
    /\ integrations[lastCall'.arg.data.id.v][prop].t = "function"

\* The step invoked the callback prop of the addressed integration and no other,
\* once, with {id, type, media} of the message.
OneCall(prop) ==
    LET data == lastCall'.arg.data
    IN  lastCall'.calls =
            <<[prop |-> prop, fn |-> integrations[data.id.v][prop].v, id |-> data.id,
               type |-> data.type.v, media |-> data.media]>>

\* C20: a callback that throws or stays pending neither blocks nor breaks the
\* routing: the message that invoked it leaves every registry entry in place, and
\* every later trusted media message is dispatched, once, to the callback of the
\* integration it names, as it is when no callback has failed.
C20_FailedCallbackKeepsRouting ==
    [][/\ (Called("message") /\ everFailed' /\ ~everFailed)
              => DOMAIN integrations' = DOMAIN integrations
       /\ (everFailed /\ Dispatches("risibank-media-selected", "onSelectMedia"))
              => OneCall("onSelectMedia")
       /\ (everFailed /\ Dispatches("risibank-media-copy", "onCopyMedia"))
              => OneCall("onCopyMedia")]_vars

\* After a callback had thrown or stayed pending, a media-copy message for the
\* iframe integration 3 invoked its onCopyMedia and returned.
C20_Witness ==
    /\ everFailed
    /\ lastCall.op = "message"
    /\ lastCall.error = NoError
    /\ lastCall.calls = <<Call("onCopyMedia", Fn("onCopy1"), Num(3),
                               "risibank-media-copy", Media)>>

-----------------------------------------------------------------------------
(* Claims about the containers and the registry (Spec) *)

\* The step is a successful activate of the given type.
Activated(type) ==
    /\ Called("activate")
    /\ lastCall'.error = NoError
    /\ Defaulted(lastCall'.arg).type = Str(type)

\* C21: at most one overlay container and one modal container ever exist: none
\* exists before the first successful activation of its mode, which creates it,
\* and once created the cached reference stays that element and never becomes
\* absent, whatever is activated, deactivated or received.
C21_ContainersCreatedOnce ==
    /\ overlayContainer = Null /\ modalContainer = Null
    /\ [][/\ everCreated'.overlay <= 1 /\ everCreated'.modal <= 1
          /\ (overlayContainer = Null /\ overlayContainer' # Null)
                 => (Activated("overlay") /\ everCreated'.overlay = 1)
          /\ (modalContainer = Null /\ modalContainer' # Null)
                 => (Activated("modal") /\ everCreated'.modal = 1)
          /\ Activated("overlay") => overlayContainer' # Null
          /\ Activated("modal") => modalContainer' # Null
          /\ overlayContainer # Null
                 => /\ overlayContainer'.t = "element"
                    /\ overlayContainer'.id = "risibank-overlay"
                    /\ everCreated'.overlay = everCreated.overlay
          /\ modalContainer # Null
                 => /\ modalContainer'.t = "element"
                    /\ modalContainer'.id = "risibank-modal"
                    /\ everCreated'.modal = everCreated.modal]_vars

\* The modal was activated again, after it and the overlay had been created and
\* the overlay hidden: one container of each kind was created.
C21_Witness ==
    /\ lastCall.op = "activate" /\ lastCall.id = Num(1)
    /\ lastCall.replaced # Undef
    /\ overlayContainer # Null /\ overlayContainer.display = "none"
    /\ modalContainer.display = "block"
    /\ everCreated = [overlay |-> 1, modal |-> 1]

-----------------------------------------------------------------------------
(* Further claims about iframe integrations (SpecFrames) *)

\* C22: the registry respects the reserved ids: the entry under 0 has type
\* overlay, the entry under 1 type modal, every other entry type iframe and an
\* id from 2 upward, handed out by the counter and not above its value; overlay
\* and modal options are stored under no other id.
C22_ReservedIds ==
    \A id \in DOMAIN integrations :
        /\ id = 0 <=> integrations[id].type = Str("overlay")
        /\ id = 1 <=> integrations[id].type = Str("modal")
        /\ id \notin {0, 1}
               => /\ integrations[id].type = Str("iframe")
                  /\ id >= 2 /\ id <= currentIntegrationId
                  /\ id \in everRegistered

\* The overlay, the modal and two iframe integrations are registered.
C22_Witness ==
    /\ DOMAIN integrations = {0, 1, 3, 4}
    /\ currentIntegrationId = 4

\* The step is the router's handling of a trusted media-selected or media-copy
\* message that carries the id of an iframe integration desactivate was run for.
MediaForDesactivated ==
    /\ Called("message")
    /\ lastCall'.arg.origin = RISIBANK_URL
    /\ lastCall'.arg.data.t = "object"
    /\ lastCall'.arg.data.type \in {Str("risibank-media-selected"),
                                    Str("risibank-media-copy")}
    /\ lastCall'.arg.data.id.t = "number"
    /\ lastCall'.arg.data.id.v \in everDesactivated

\* C23: iframe ids are never reused: once the iframe integration n has been
\* deactivated, no activation is registered under n, and no trusted
\* media-selected or media-copy message carrying n invokes a callback.
C23_DeactivatedIdStaysDead ==
    [][/\ (Called("activate") /\ lastCall'.error = NoError)
              => lastCall'.id.v \notin everDesactivated
       /\ MediaForDesactivated => lastCall'.calls = <<>>]_vars

-----------------------------------------------------------------------------
(* Further claims about the overlay, the modal and the registry (Spec) *)

\* The options are fully normalized.
Normalized(options) ==
    /\ Includes(TYPES, options.type)
    /\ Includes(THEMES, options.theme)
    /\ Includes(SIZES, options.mediaSize)
    /\ Includes(SIZES, options.navbarSize)
    /\ Includes(TABS, options.defaultTab)
    /\ options.showNSFW.t = "boolean"
    /\ options.allowUsernameSelection.t = "boolean"
    /\ options.showCopyButton.t = "boolean"
    /\ options.onSelectMedia.t = "function"
    /\ options.type.v = "iframe" => options.container.t \in {"string", "element"}
    /\ options.type.v = "modal" => options.openPosition.t = "object"

\* C24: every options object the registry holds is fully normalized (enum
\* fields in their enums, the three booleans boolean, onSelectMedia callable, a
\* container for an iframe entry, an openPosition for a modal entry), and every
\* iframe inserted gets the embed URL of options that are.
C24_RegistryNormalized ==
    [][/\ \A id \in DOMAIN integrations' : Normalized(integrations'[id])
       /\ InsertedIFrame
              => /\ Normalized(integrations'[lastCall'.id.v])
                 /\ Populated.children[1].src =
                        GetEmbedUrl(integrations'[lastCall'.id.v], lastCall'.id.v)]_vars

\* An overlay given the empty theme and a modal are registered beside an iframe
\* integration, and the last activation, one without a callable onSelectMedia,
\* threw.
C24_Witness ==
    /\ lastCall.op = "activate"
    /\ lastCall.error = "A callback must be specified"
    /\ DOMAIN integrations = {0, 1, 3}
    /\ integrations[0].theme = Str("light")
    /\ integrations[1].openPosition = Pos(10, 10)

\* C25: an activate with type modal places the modal container at the adjusted
\* coordinates of its openPosition: those the position helper gives for the
\* 600x300 box and its margin in the window, so that a position inside the margin
\* such as {x: 10, y: 10} is not where the modal is left.
C25_ModalPlacedAtAdjustedPosition ==
    [][Activated("modal")
           => \E window \in Windows :
                  LET adjusted == AdjustPositionForWindowBounds(
                                      lastCall'.arg.openPosition, ModalSize, ModalMargin,
                                      window)
                  IN  /\ modalContainer'.left = Template(Num(adjusted.x)) \o "px"
                      /\ modalContainer'.top = Template(Num(adjusted.y)) \o "px"]_vars

-----------------------------------------------------------------------------
(* Claims about the position helper (SpecUI) *)

\* The box of the given size at top-left p lies inside the window with the
\* margin on its left and right, and on its top and bottom.
InsideHorizontally(p, size, margin, window) ==
    margin <= p.x /\ p.x + size.width + margin <= window.innerWidth

InsideVertically(p, size, margin, window) ==
    margin <= p.y /\ p.y + size.height + margin <= window.innerHeight

\* The last call was one of adjustPositionForWindowBounds.
Adjusted == lastCall.op = "adjustPositionForWindowBounds"

DeactivatedModal ==
    /\ 1 \in DOMAIN integrations
    /\ \/ Called("desactivate") /\ lastCall'.arg \in {Num(1), Undef}
       \/ /\ Called("message")
          /\ lastCall'.error = NoError
          /\ lastCall'.arg.origin = RISIBANK_URL
          /\ lastCall'.arg.data.type \in {Str("risibank-closed"),
                                          Str("risibank-media-selected")}
          /\ lastCall'.arg.data.id = Num(1)

\* C27: whenever the modal container exists, its pointer events are enabled
\* exactly when it is displayed: an activation of the modal turns both on, a
\* deactivation (by the API, a closed message or the auto-close) turns both off,
\* and nothing changes one without the other.
C27_PointerEventsFollowDisplay ==
    [][/\ modalContainer' # Null
              => <<modalContainer'.display, modalContainer'.pointerEvents>>
                     \in {<<"block", "all">>, <<"none", "none">>}
       /\ Activated("modal")
              => <<modalContainer'.display, modalContainer'.pointerEvents>>
                     = <<"block", "all">>
       /\ DeactivatedModal
              => <<modalContainer'.display, modalContainer'.pointerEvents>>
                     = <<"none", "none">>]_vars

\* A trusted media-selected message for the modal closed it: it is neither
\* displayed nor open to pointer events.
C27_Witness ==
    /\ lastCall.op = "message"
    /\ lastCall.arg.data.type = Str("risibank-media-selected")
    /\ lastCall.arg.data.id = Num(1)
    /\ Len(lastCall.calls) = 1
    /\ modalContainer # Null
    /\ modalContainer.display = "none" /\ modalContainer.pointerEvents = "none"

-----------------------------------------------------------------------------
(* Claims about re-activation (SpecRouter, SpecFrames, Spec) *)

\* C28: each successful overlay or modal activation replaces the options stored
\* under id 0 or 1, also when the iframe in the container is kept because the
\* hash is unchanged; the entry changes at no other step, and a trusted
\* media-selected message for the id invokes the onSelectMedia of the latest
\* activation exactly once and no other callback.
C28_ReactivationReplacesCallbacks ==
    [][\A id \in {0, 1} :
           /\ (Called("activate") /\ lastCall'.error = NoError /\ lastCall'.id = Num(id))
                  => integrations'[id] = Defaulted(lastCall'.arg)
           /\ (id \in DOMAIN integrations'
                   /\ ~(Called("activate") /\ lastCall'.id = Num(id)))
                  => (id \in DOMAIN integrations /\ integrations'[id] = integrations[id])
           /\ (SelectedFor(IF id = 0 THEN "overlay" ELSE "modal")
                   /\ lastCall'.arg.data.id = Num(id))
                  => OneSelectCall]_vars

\* The overlay was activated again with another onSelectMedia and the same
\* configuration: its first iframe is kept and the entry holds the new callback.
C28_Witness ==
    /\ lastCall.op = "activate"
    /\ lastCall.id = Num(0)
    /\ lastCall.replaced # Undef
    /\ lastCall.replaced.onSelectMedia # lastCall.arg.onSelectMedia
    /\ HashOptions(lastCall.replaced) = HashOptions(Defaulted(lastCall.arg))
    /\ overlayContainer.children[1].node.serial = 1
    /\ integrations[0].onSelectMedia = lastCall.arg.onSelectMedia

\* The iframe is the embed of integration n: its source names the id n.
EmbedOf(iframe, n) ==
    StartsWith(iframe.src, RISIBANK_URL \o "/embed?id=" \o ToString(n) \o "&")

\* C29: each iframe-type registry entry with id n corresponds to a live embed:
\* the container it names holds an iframe whose embed URL carries id=n, also when
\* several iframe activations name the same container, with the same or with a
\* different configuration.
C29_EveryEntryHasItsEmbed ==
    \A n \in IFrameIds :
        LET c == elements[ContainerElement(integrations[n])]
        IN  /\ c.children # NoChildren
            /\ EmbedOf(Head(c.children), n)

\* The container an activate with the given normalized options and id populated.
TargetAfter(options, id) ==
    IF id = 0 THEN overlayContainer'
    ELSE IF id = 1 THEN modalContainer'
    ELSE elements'[ContainerElement(options)]

\* C30: after every successful activate, the iframe in the target container has
\* the embed URL computed from the just-normalized options, the id and the
\* current username as its source: a re-activation that changes only showNSFW
\* does not leave an iframe showing the previous showNSFW.
C30_IFrameShowsActivatedOptions ==
    [][(Called("activate") /\ lastCall'.error = NoError)
           => LET options == Defaulted(lastCall'.arg)
                  c == TargetAfter(options, lastCall'.id.v)
              IN  /\ c.children # NoChildren
                  /\ Head(c.children).src = GetEmbedUrl(options, lastCall'.id.v)]_vars

-----------------------------------------------------------------------------
(* Claims about hidden surfaces, failing and re-entrant callbacks, the username
   and the origin (SpecRouter, SpecReentrant, SpecStorage) *)

\* The overlay (id 0) or modal (id 1) has been deactivated and not activated
\* since: its container exists and is hidden.  Only desactivate hides a
\* container, and every successful activation shows it.
Hidden(id) ==
    /\ Surface(id).t = "element"
    /\ Surface(id).display = "none"

\* The step is the router's handling of a trusted media-selected or media-copy
\* message addressed to id.
MediaMessageFor(id) ==
    /\ Called("message")
    /\ lastCall'.arg.origin = RISIBANK_URL
    /\ lastCall'.arg.data.t = "object"
    /\ lastCall'.arg.data.type \in {Str("risibank-media-selected"),
                                    Str("risibank-media-copy")}
    /\ lastCall'.arg.data.id = Num(id)

\* C31: once the overlay or the modal has been deactivated, and until it is
\* activated again, no trusted media-selected or media-copy message addressed to
\* id 0 or 1 invokes a callback.
C31_HiddenSurfaceStaysSilent ==
    [][\A id \in {0, 1} :
           (Hidden(id) /\ MediaMessageFor(id)) => lastCall'.calls = <<>>]_vars

\* C32: the auto-close after a trusted media-selected message for a registered
\* overlay or modal does not depend on the outcome of the callback: the container
\* is hidden when the handler ends, also when onSelectMedia threw.
C32_AutoCloseWhateverTheOutcome ==
    [][\A id \in {0, 1} :
           (SelectedFor(IF id = 0 THEN "overlay" ELSE "modal")
                /\ lastCall'.arg.data.id = Num(id))
               => Surface(id)'.display = "none"]_vars

\* C33: when onSelectMedia, while being dispatched for the overlay or the modal,
\* itself calls activate for that same mode, the surface it has just opened is
\* still visible when the router's handler returns.
C33_ReopenedSurfaceStaysVisible ==
    [][\A id \in {0, 1} :
           (SelectedFor(IF id = 0 THEN "overlay" ELSE "modal")
                /\ lastCall'.arg.data.id = Num(id)
                /\ integrations[id].onSelectMedia = Fn("activateAgain"))
               => Surface(id)'.display = "block"]_vars

\* The username the embed URL carries, if it carries one: what follows
\* "&username=", the last parameter _getEmbedUrl appends.
UsernameIn(url) ==
    LET key == "&username="
        at == Occurrences(url, key)
    IN  IF at = {} THEN Null
        ELSE LET i == CHOOSE j \in at : \A k \in at : j <= k
             IN  Str(SubSeq(url, i + Len(key), Len(url)))

\* C34: the in-memory selected username is either absent or a string matching
\* the pattern enforced when loading from storage, whatever trusted
\* username-selected messages or setter calls occurred; hence the username in the
\* embed URL of the overlay's iframe matches that pattern.
C34_UsernameAlwaysWellFormed ==
    /\ selectedUsername = Null \/ WellFormedUsername(selectedUsername)
    /\ (overlayContainer # Null /\ overlayContainer.children # NoChildren)
           => LET username == UsernameIn(Head(overlayContainer.children).src)
              IN  username = Null \/ WellFormedUsername(username)

\* The origin of a URL, as the browser reports it in event.origin for a page
\* loaded from that URL: the scheme and the host, up to the first "/" after
\* "://", without path or trailing slash.
OriginOf(url) ==
    LET host == CHOOSE i \in Occurrences(url, "://") :
                    \A k \in Occurrences(url, "://") : i <= k
        slashes == {j \in Occurrences(url, "/") : j > host + 2}
    IN  IF slashes = {} THEN url
        ELSE SubSeq(url, 1, (CHOOSE j \in slashes : \A k \in slashes : j <= k) - 1)

\* The step is the router's handling of a well-formed media-selected message,
\* posted by the page embedded for a registered integration that has the
\* callback: its origin is the origin of the source of that integration's iframe.
PostedByEmbed ==
    /\ Called("message")
    /\ lastCall'.arg.data.t = "object"
    /\ lastCall'.arg.data.type = Str("risibank-media-selected")
    /\ Registered(integrations, lastCall'.arg.data.id)
    /\ integrations[lastCall'.arg.data.id.v].onSelectMedia.t = "function"
    /\ ContainerOf(lastCall'.arg.data.id.v).children # NoChildren
    /\ lastCall'.arg.origin
           = OriginOf(Head(ContainerOf(lastCall'.arg.data.id.v).children).src)

\* C35: the value the router compares a message's origin against is the origin
\* of the embed URL that activate loads into the iframe, so a well-formed
\* media-selected message posted by the embedded page for a registered
\* integration passes the origin check and invokes onSelectMedia.
C35_EmbedOriginIsTrusted ==
    [][PostedByEmbed => (~lastCall'.log /\ OneSelectCall)]_vars

====
